---- MODULE Spec2Model ----
(***************************************************************************)
(* Model of the developer-guides MCP server.                                *)
(*                                                                         *)
(*  - the hybrid query engine, GuideSearchService.search / mergeResults    *)
(*    (src/unnamed/part_006);                                              *)
(*  - the indexing coordinator, processAndUploadGuides and its helpers     *)
(*    (src/src/guide-processor/index.ts), driven by the /upload route      *)
(*    (src/unnamed/part_000);                                              *)
(*  - the section splitter parseMarkdown applied to any body;              *)
(*  - the chunker, GuideParser.createChunks / splitLargeSection            *)
(*    (src/docs/guide-processor.ts);                                       *)
(*  - the MCP tools get_guide and initialize_claude_md                     *)
(*    (src/unnamed/part_000) and GuideSearchService.getGuide;              *)
(*  - the webhook POST /api/sync-registry (src/unnamed/part_000).          *)
(*                                                                         *)
(* Scores are kept as integers. A combined score is the native score      *)
(* times 11 (keyword) or times 10 (semantic): ten times the value the      *)
(* comparator of mergeResults computes with the factors 1.1 and 1.0.       *)
(***************************************************************************)
EXTENDS Integers, Sequences, FiniteSets, TLC

VARIABLES
    \* ---- hybrid query engine ----
    ftsIndex,       \* rows the full-text MATCH yields for the query, in rank order
    vecIndex,       \* matches the vector index yields for the query, by similarity
    spc,            \* "idle" before any call, "done" once search has returned
    squery,         \* the SearchQuery of the last call
    sresult,        \* the SearchResult[] the last call returned
    scalls,         \* the lookups the last call issued to the stores, in order
    \* ---- indexing coordinator ----
    r2,             \* object store: key -> body
    guides,         \* table guides: id -> row
    sections,       \* table sections: id (PRIMARY KEY) -> row
    guides_fts,     \* table guides_fts: rows in insertion order
    active,         \* the callers of the /upload route
    up,             \* per caller: position and locals of processAndUploadGuides
    submitted,      \* files handed to /upload so far
    prevDone,       \* per caller: the file it last processed to the end, and what
                    \* the stores then held for its guide (history, not program state)
    anyFailed,      \* some file's processing has thrown (history)
    \* ---- single calls of the other operations ----
    fpc,            \* "idle" before the call, then the name of the operation called
    fin,            \* the argument of the call
    fout,           \* what the call returned
    \* ---- service registry ----
    services,               \* table services: id (PRIMARY KEY) -> row
    service_capabilities,   \* table service_capabilities: rows in insertion order
    service_providers,      \* table service_providers: rows in insertion order
    registry_sync_log,      \* table registry_sync_log: rows in insertion order
    REGISTRY_SYNC_TOKEN     \* the secret of the deployment, <<>> when not set

svars == <<ftsIndex, vecIndex, spc, squery, sresult, scalls>>

stores == <<r2, guides, sections, guides_fts>>

ivars == <<r2, guides, sections, guides_fts, active, up, submitted, prevDone,
          anyFailed>>

vars == <<ftsIndex, vecIndex, spc, squery, sresult, scalls,
          r2, guides, sections, guides_fts, active, up, submitted, prevDone,
          anyFailed, fpc, fin, fout, services, service_capabilities,
          service_providers, registry_sync_log, REGISTRY_SYNC_TOKEN>>

rvars == <<services, service_capabilities, service_providers,
          registry_sync_log, REGISTRY_SYNC_TOKEN>>

fvars == <<fpc, fin, fout>>

----------------------------------------------------------------------------
(* Bounds of the model                                                     *)

MaxCandidates == 3      \* rows in the two indexes together
MaxLimit == 2           \* largest limit a caller passes
MaxFiles == 2           \* files handed to /upload in one behaviour
MaxFilterRows == 1      \* rows per index when the filters of a query are varied
MaxBodyLines == 4       \* lines of a body handed to the section splitter
MaxParagraphs == 3      \* paragraphs of a section handed to the chunker
MaxStoredSections == 2  \* sections stored for the guide that get_guide reads
MaxSyncs == 2           \* syncs the registry log records

----------------------------------------------------------------------------
(* Hybrid query engine: src/unnamed/part_006                               *)

DefaultLimit == 5
KeywordBoostTimes10 == 11
SemanticBoostTimes10 == 10

\* (guideId, sectionId) pairs of the indexed sections. Ids contain hyphens,
\* as guide ids ("dev-guide-index") and section ids ("section-1") do.
Pairs == { <<"a", "b-c">>, <<"a-b", "c">>, <<"a", "c">> }

KeywordScores == {0, 20}    \* |rank| of the full-text engine
SemanticScores == {0, 21}   \* similarity of the vector index

\* Text values (category, framework, language, a tag, the tags column) are
\* sequences of characters; <<>> is the absent (falsy) value.
Absent == <<>>

\* What a row carries besides its ids and score: guides.category and
\* guides.tags for a full-text row (the guides table has no framework or
\* language column), the metadata of the vector for a vector match.
Meta(c, f, l, t) == [category |-> c, framework |-> f, language |-> l, tags |-> t]

DefaultMeta == Meta(<<"w">>, <<"f">>, <<"l">>, <<"t">>)

RowWith(p, s, m) ==
    [guideId |-> p[1], sectionId |-> p[2], relevanceScore |-> s, metadata |-> m]

Row(p, s) == RowWith(p, s, DefaultMeta)

KeywordRows == { Row(p, s) : p \in Pairs, s \in KeywordScores }
SemanticRows == { Row(p, s) : p \in Pairs, s \in SemanticScores }

SeqsUpTo(S, n) == UNION { [1..k -> S] : k \in 0..n }

Min(a, b) == IF a <= b THEN a ELSE b

Take(s, n) == SubSeq(s, 1, Min(n, Len(s)))

\* SearchQuery.limit is optional: hasLimit = FALSE is the absent field.
\* Queries that pass no filter:
Queries == [hasLimit : BOOLEAN, limit : 0..MaxLimit, category : {Absent},
            framework : {Absent}, language : {Absent}, tags : {<<>>}]

\* Queries that pass any of the four optional filters of SearchQuery.
FilterQueries ==
    [hasLimit : {FALSE}, limit : {0}, category : {Absent, <<"w">>},
     framework : {Absent, <<"f">>}, language : {Absent, <<"l">>},
     tags : {<<>>, << <<"t">> >>}]

\* Rows of the two indexes whose metadata varies.
FtsMetas == { Meta(c, Absent, Absent, t) :
                c \in {<<"w", "a">>, <<"x">>}, t \in {<<"t">>, <<"u">>} }
VecMetas == { Meta(c, f, <<"l">>, <<"t">>) :
                c \in {<<"w">>, <<"x">>}, f \in {<<"f">>, <<"g">>} }

FilterKeywordRows == { RowWith(<<"a", "c">>, 20, m) : m \in FtsMetas }
FilterSemanticRows == { RowWith(<<"a-b", "c">>, 21, m) : m \in VecMetas }

FilterFields == {"category", "framework", "language", "tags"}

\* The filters a query supplies: if (query.category), if (query.tags &&
\* query.tags.length > 0), ...
Supplied(q) == { f \in FilterFields : q[f] # <<>> }

\* value LIKE '%pat%'
Like(value, pat) ==
    \E i \in 0..(Len(value) - Len(pat)) : SubSeq(value, i + 1, i + Len(pat)) = pat

\* keywordSearch, "Add filters": the conditions appended to the SQL
KeywordFilter(q) == { <<f, q[f]>> : f \in {"category", "tags"} \cap Supplied(q) }

\* semanticSearch, "Build filter for Vectorize"
SemanticFilter(q) ==
    { <<f, q[f]>> : f \in {"category", "framework", "language"} \cap Supplied(q) }

\* D1: AND g.category LIKE ? / AND (g.tags LIKE ? OR g.tags LIKE ? ...)
FtsMatches(r, fv) ==
    IF fv[1] = "category" THEN Like(r.metadata.category, fv[2])
    ELSE \E i \in 1..Len(fv[2]) : Like(r.metadata.tags, fv[2][i])

\* Vectorize: a metadata filter { field: value } keeps the equal values
VecMatches(r, fv) == r.metadata[fv[1]] = fv[2]

FtsQuery(filters, limit) ==
    Take(SelectSeq(ftsIndex, LAMBDA r : \A fv \in filters : FtsMatches(r, fv)), limit)

VecQuery(filters, limit) ==
    Take(SelectSeq(vecIndex, LAMBDA r : \A fv \in filters : VecMatches(r, fv)), limit)

\* const limit = query.limit || 5;
EffectiveLimit(q) == IF q.hasLimit /\ q.limit # 0 THEN q.limit ELSE DefaultLimit

\* keywordSearch: ... ORDER BY rank LIMIT ?
KeywordSearch(q, limit) == FtsQuery(KeywordFilter(q), limit)

\* semanticSearch: vectorize.query(query, { topK: limit, ... })
SemanticSearch(q, limit) == VecQuery(SemanticFilter(q), limit)

Tag(rs, src) == [i \in 1..Len(rs) |->
                    [guideId |-> rs[i].guideId, sectionId |-> rs[i].sectionId,
                     relevanceScore |-> rs[i].relevanceScore,
                     metadata |-> rs[i].metadata, source |-> src]]

\* Mutant of CombinedScore: the keyword boost is forgotten.
CombinedScoreNoBoost(r) == r.relevanceScore * SemanticBoostTimes10

\* aScore / bScore of the sort comparator, times ten
CombinedScore(r) ==
    r.relevanceScore *
        (IF r.source = "keyword" THEN KeywordBoostTimes10 ELSE SemanticBoostTimes10)

\* (a, b) => bScore - aScore
Compare(a, b) == CombinedScore(b) - CombinedScore(a)

\* Mutant of SortInsert: an unstable sort that lets a later element overtake
\* the elements it ties with.
RECURSIVE SortInsertUnstable(_, _)
SortInsertUnstable(x, s) ==
    IF s = <<>> THEN <<x>>
    ELSE IF Compare(Head(s), x) < 0
         THEN <<Head(s)>> \o SortInsertUnstable(x, Tail(s))
         ELSE <<x>> \o s

\* Array.prototype.sort is stable: an element is placed after every element
\* that does not compare greater than it.
RECURSIVE SortInsert(_, _)
SortInsert(x, s) ==
    IF s = <<>> THEN <<x>>
    ELSE IF Compare(Head(s), x) <= 0
         THEN <<Head(s)>> \o SortInsert(x, Tail(s))
         ELSE <<x>> \o s

RECURSIVE SortResults(_)
SortResults(s) ==
    IF s = <<>> THEN <<>>
    ELSE SortInsert(s[Len(s)], SortResults(SubSeq(s, 1, Len(s) - 1)))

\* const key = `${result.guideId}-${result.sectionId}`;
DedupKey(r) == r.guideId \o "-" \o r.sectionId

\* Mutant of Admits: the seen-set test is dropped.
AdmitsNoSeen(r, seen, merged, limit) == Len(merged) < limit

\* if (!seen.has(key) && merged.length < limit)
Admits(r, seen, merged, limit) == DedupKey(r) \notin seen /\ Len(merged) < limit

\* for (const result of allResults) { ... }
RECURSIVE MergeLoop(_, _, _, _)
MergeLoop(all, seen, merged, limit) ==
    IF all = <<>> THEN merged
    ELSE IF Admits(Head(all), seen, merged, limit)
         THEN MergeLoop(Tail(all), seen \cup {DedupKey(Head(all))},
                        Append(merged, Head(all)), limit)
         ELSE MergeLoop(Tail(all), seen, merged, limit)

AllResults(keywordResults, semanticResults) ==
    SortResults(Tag(keywordResults, "keyword") \o Tag(semanticResults, "semantic"))

MergeResults(keywordResults, semanticResults, limit) ==
    MergeLoop(AllResults(keywordResults, semanticResults), {}, <<>>, limit)

\* GuideSearchService.search
SearchResults(q) ==
    LET limit == EffectiveLimit(q)
    IN  MergeResults(KeywordSearch(q, limit), SemanticSearch(q, limit), limit)

NoQuery == [hasLimit |-> FALSE, limit |-> 0, category |-> Absent,
            framework |-> Absent, language |-> Absent, tags |-> <<>>]

\* A lookup of search may throw: the D1 statement or the Vectorize query.
LookupFaults == {"none", "keyword", "semantic"}

Lookup(store, filters, throws) ==
    [store |-> store, filters |-> filters, throws |-> throws]

\* The awaits of search, in order; the second is not reached when the first
\* throws.
IssuedLookups(q, fault) ==
    <<Lookup("fts", KeywordFilter(q), fault = "keyword")>>
        \o (IF fault = "keyword" THEN <<>>
            ELSE <<Lookup("vec", SemanticFilter(q), fault = "semantic")>>)

\* Mutant of SearchStatus: a failed lookup counts as one without matches.
SearchStatusSwallow(fault) == "done"

\* search has no try/catch: the exception of a lookup rejects its promise.
SearchStatus(fault) == IF fault = "none" THEN "done" ELSE "error"



----------------------------------------------------------------------------
(* Documents                                                               *)
(*                                                                         *)
(* A file content is the sequence of its lines (content.split('\n')). A    *)
(* line carries what the regular expressions of the processor read off it: *)
(* its kind, and for a heading its level and title. raw is the line's text.*)

Ln(k, lv, t, raw) == [kind |-> k, level |-> lv, title |-> t, raw |-> raw]

LDelim == Ln("delim", 0, "", "---")
LBlank == Ln("blank", 0, "", "")
LYaml == Ln("yaml", 0, "T", "title: T")
LBadYaml == Ln("badyaml", 0, "", "title: [")
LHeadA == Ln("head", 1, "A", "# A")
LHeadB == Ln("head", 2, "B", "## B")
LText == Ln("text", 0, "", "x")

\* The contents handed to /upload: two sections, one section, no frontmatter,
\* frontmatter YAML.parse rejects.
DocTwoSections == <<LDelim, LYaml, LDelim, LHeadA, LText, LHeadB, LText>>
DocOneSection == <<LDelim, LYaml, LDelim, LBlank, LHeadA, LText>>
DocNoFrontmatter == <<LHeadA, LText>>
DocBadYaml == <<LDelim, LBadYaml, LDelim, LHeadA, LText>>

Contents == {DocTwoSections, DocOneSection, DocNoFrontmatter, DocBadYaml}

\* File names, as sequences of characters (".md" is kept as one token).
FileNames == { <<"a", ".md">>, <<"A", ".md">>, <<"a", " ", "b", ".md">> }

Files == [name : FileNames, content : Contents]

----------------------------------------------------------------------------
(* Indexing coordinator: src/src/guide-processor/index.ts                  *)

Callers == {1, 2}

EmptyMap == [x \in {} |-> x]

RECURSIVE Concat(_)
Concat(ss) == IF ss = <<>> THEN "" ELSE Head(ss) \o Concat(Tail(ss))

\* Array.prototype.join
RECURSIVE Join(_, _)
Join(ss, sep) ==
    IF ss = <<>> THEN ""
    ELSE IF Len(ss) = 1 THEN ss[1]
    ELSE ss[1] \o sep \o Join(Tail(ss), sep)

\* String.prototype.toLowerCase, on one character
Lower(ch) == IF ch = "A" THEN "a" ELSE ch

IsSpace(ch) == ch = " "

\* .replace(/\.md$/, '')
StripMd(name) ==
    IF Len(name) > 0 /\ name[Len(name)] = ".md"
    THEN SubSeq(name, 1, Len(name) - 1) ELSE name

\* .replace(/\s+/g, '-'): every run of white space becomes one hyphen
RECURSIVE DashSpaces(_, _)
DashSpaces(chars, inRun) ==
    IF chars = <<>> THEN <<>>
    ELSE IF IsSpace(Head(chars))
         THEN (IF inRun THEN <<>> ELSE <<"-">>) \o DashSpaces(Tail(chars), TRUE)
         ELSE <<Head(chars)>> \o DashSpaces(Tail(chars), FALSE)

\* const guideId = file.name.replace(/\.md$/, '').toLowerCase().replace(/\s+/g, '-');
GuideIdOf(name) ==
    LET stem == StripMd(name)
        low == [i \in 1..Len(stem) |-> Lower(stem[i])]
    IN  Concat(DashSpaces(low, FALSE))

\* const key = `guides/${guideId}.md`;
R2Key(guideId) == "guides/" \o guideId \o ".md"

IsBlankRun(c, from, to) == \A k \in from..to : c[k].kind = "blank"

\* The closing delimiter /\n---\s*\n/ finds after an opening that ends with
\* line a: the first delimiter line j > a + 1 that a newline follows
\* (group 1 is lazy). 0 when there is none.
ClosingAfter(c, a) ==
    LET js == { j \in (a + 2)..(Len(c) - 1) : c[j].kind = "delim" }
    IN  IF js = {} THEN 0 ELSE CHOOSE j \in js : \A k \in js : j <= k

\* /^---\s*\n([\s\S]*?)\n---\s*\n([\s\S]*)$/ on the lines of content.
\* The opening "---\s*\n" takes line 1 and, \s* being greedy, the blank lines
\* after it up to line a; the closing one takes line j and the blank lines
\* after it up to line e. Group 1 is lines a+1..j-1, group 2 lines e+1..n.
FrontmatterMatch(c) ==
    LET n == Len(c)
        as == { a \in 1..(n - 1) :
                    /\ c[1].kind = "delim"
                    /\ IsBlankRun(c, 2, a)
                    /\ ClosingAfter(c, a) # 0 }
    IN  IF as = {} THEN [matched |-> FALSE, yaml |-> <<>>, markdown |-> c]
        ELSE LET a == CHOOSE x \in as : \A y \in as : y <= x
                 j == ClosingAfter(c, a)
                 e == CHOOSE x \in j..(n - 1) :
                        /\ IsBlankRun(c, j + 1, x)
                        /\ \A y \in j..(n - 1) : IsBlankRun(c, j + 1, y) => y <= x
             IN  [matched |-> TRUE,
                  yaml |-> SubSeq(c, a + 1, j - 1),
                  markdown |-> SubSeq(c, e + 1, n)]

\* YAML.parse(match[1]) throws on a malformed mapping and on a second document.
YamlThrows(y) == \E i \in 1..Len(y) : y[i].kind \in {"badyaml", "delim"}

\* YAML.parse returns null when the source holds blank and comment lines only
\* ("# A" is a YAML comment); metadata.title then throws a TypeError.
YamlIsNull(y) == \A i \in 1..Len(y) : y[i].kind \in {"blank", "head"}

\* metadata.title: the title of the mapping, "" (undefined) when it has none.
YamlTitle(y) ==
    LET ts == { i \in 1..Len(y) : y[i].kind = "yaml" }
    IN  IF ts = {} THEN "" ELSE y[CHOOSE i \in ts : \A k \in ts : i <= k].title

\* extractFrontmatter, and the read of metadata.title that follows it:
\* throws, or yields the title ("" when undefined) and the markdown.
ExtractFrontmatter(content) ==
    LET m == FrontmatterMatch(content)
    IN  IF m.matched
        THEN [throws |-> YamlThrows(m.yaml) \/ YamlIsNull(m.yaml),
              title |-> YamlTitle(m.yaml), markdown |-> m.markdown]
        ELSE [throws |-> FALSE, title |-> "", markdown |-> content]

\* line.match(/^(#{1,6})\s+(.+)$/)
HeaderMatch(line) == line.kind = "head"

\* id: `section-${sections.length + 1}`
SectionId(k) == "section-" \o ToString(k)

\* parseMarkdown: the loop over lines, from line i on. cur is currentSection
\* (<<>> for null, else a one-element sequence).
\* Mutant of AppendLine: the line break is left out.
AppendLineNoBreak(content, line) == content \o line.raw

\* currentSection.content += line + '\n';
AppendLine(content, line) == content \o line.raw \o "\n"

\* Mutant of NextSectionNumber: the number is taken before the previous
\* section is pushed.
NextSectionNumberStale(before, closed) == Len(before) + 1

\* sections.length + 1, read after the previous section was pushed
NextSectionNumber(before, closed) == Len(closed) + 1

\* Mutant of ClosedEndLine: the previous section ends at the heading line.
ClosedEndLineAtHeading(lineNum) == lineNum

\* currentSection.end_line = lineNum - 1, at the heading on line lineNum
ClosedEndLine(lineNum) == lineNum - 1

RECURSIVE ParseLines(_, _, _, _)
ParseLines(lines, i, secs, cur) ==
    IF i > Len(lines)
    THEN IF cur = <<>> THEN secs
         ELSE Append(secs, [cur[1] EXCEPT !.end_line = Len(lines)])
    ELSE IF HeaderMatch(lines[i])
         THEN LET closed == IF cur = <<>> THEN secs
                            ELSE Append(secs, [cur[1] EXCEPT !.end_line = ClosedEndLine(i)])
              IN  ParseLines(lines, i + 1, closed,
                     << [id |-> SectionId(NextSectionNumber(secs, closed)),
                         level |-> lines[i].level,
                         title |-> lines[i].title,
                         content |-> "",
                         start_line |-> i,
                         end_line |-> i] >>)
         ELSE IF cur # <<>>
              THEN ParseLines(lines, i + 1, secs,
                     << [cur[1] EXCEPT !.content = AppendLine(@, lines[i])] >>)
              ELSE ParseLines(lines, i + 1, secs, cur)

ParseMarkdown(markdown) == ParseLines(markdown, 1, <<>>, <<>>)

\* ---- D1 statements. A statement yields the table it leaves and whether it
\* ---- ran (run() rejects on a constraint violation).

\* INSERT INTO guides (...) VALUES (...) ON CONFLICT(id) DO UPDATE SET ...
InsertGuideStmt(tbl, id, row) == [ok |-> TRUE, tbl |-> (id :> row) @@ tbl]

\* INSERT INTO sections (...) VALUES (...) ON CONFLICT(id) DO UPDATE SET ...
InsertSectionStmt(tbl, id, row) == [ok |-> TRUE, tbl |-> (id :> row) @@ tbl]

\* Mutant of FtsDeleteStmt: the DELETE is left out.
FtsDeleteStmtNothing(fts, guideId) == fts

\* DELETE FROM guides_fts WHERE guide_id = ?
FtsDeleteStmt(fts, guideId) == SelectSeq(fts, LAMBDA r : r.guide_id # guideId)

\* INSERT INTO guides_fts (guide_id, title, content, tags) VALUES (?, ?, ?, ?)
FtsInsertStmt(fts, row) == Append(fts, row)

\* sections.map(s => s.content).join('\n')
FtsContent(secs) == Join([i \in 1..Len(secs) |-> secs[i].content], "\n")

\* The stores, in the order processAndUploadGuides reaches them.
StageRank(stage) ==
    CASE stage = "extract" -> 0
      [] stage = "body-write" -> 1
      [] stage = "metadata-write" -> 2
      [] stage = "index-write" -> 3
      [] stage = "vector-write" -> 4

NoFailure == [stage |-> "none", cause |-> "none"]

IdleCaller ==
    [pc |-> "idle", batch |-> <<>>, idx |-> 0, guideId |-> "", title |-> "",
     markdown |-> <<>>, secs |-> <<>>, sidx |-> 0,
     failed |-> NoFailure, writes |-> <<>>]

NoneDone == [valid |-> FALSE, file |-> <<>>, data |-> <<>>]

\* What the stores hold for one guide: its rows of sections, of guides_fts
\* and of the vector index.
GuideData(g) ==
    [sections |-> { <<id, sections[id]>> : id \in
                        { x \in DOMAIN sections : sections[x].guide_id = g } },
     fts |-> SelectSeq(guides_fts, LAMBDA r : r.guide_id = g),
     vectors |-> SelectSeq(vecIndex, LAMBDA r : r.guideId = g)]

CurrentFile(c) == up[c].batch[up[c].idx]

\* Mutant of OnError: the error is logged and the next step runs.
OnErrorContinue(next) == next

\* catch (error) { console.error(...); throw error; }: the batch ends.
OnError(next) == "aborted"

\* A step of caller c threw at `stage`.
Throw(c, stage, cause, next) ==
    /\ up' = [up EXCEPT ![c].pc = OnError(next),
                        ![c].failed = [stage |-> stage, cause |-> cause]]
    /\ anyFailed' = TRUE

InitIngestStores ==
    /\ r2 = EmptyMap
    /\ guides = EmptyMap
    /\ sections = EmptyMap
    /\ guides_fts = <<>>

InitIngestIdle ==
    /\ InitIngestStores
    /\ up = [c \in Callers |-> IdleCaller]
    /\ submitted = 0
    /\ prevDone = [c \in Callers |-> NoneDone]
    /\ anyFailed = FALSE

InitCallIdle ==
    /\ fpc = "idle"
    /\ fin = <<>>
    /\ fout = <<>>

InitRegistryIdle ==
    /\ services = EmptyMap
    /\ service_capabilities = <<>>
    /\ service_providers = <<>>
    /\ registry_sync_log = <<>>
    /\ REGISTRY_SYNC_TOKEN = <<>>

InitSearchIdle ==
    /\ spc = "idle"
    /\ squery = NoQuery
    /\ sresult = <<>>
    /\ scalls = <<>>

\* app.post('/upload', ...): processAndUploadGuides(files, bindings)
Upload(c, files) ==
    /\ c \in active
    /\ up[c].pc \in {"idle", "done", "aborted"}
    /\ Len(files) >= 1
    /\ submitted + Len(files) <= MaxFiles
    /\ submitted' = submitted + Len(files)
    /\ up' = [up EXCEPT ![c] = [IdleCaller EXCEPT !.pc = "extract",
                                                  !.batch = files, !.idx = 1]]
    /\ prevDone' = [prevDone EXCEPT ![c] =
                        IF up[c].pc = "aborted" THEN NoneDone ELSE @]
    /\ UNCHANGED <<stores, active, anyFailed, svars, fvars, rvars>>

\* const { metadata, markdown } = extractFrontmatter(file.content); guideId
ExtractStep(c) ==
    /\ c \in active
    /\ up[c].pc = "extract"
    /\ LET file == CurrentFile(c)
           fm == ExtractFrontmatter(file.content)
       IN  IF fm.throws
           THEN Throw(c, "extract", "yaml", "aborted")
           ELSE /\ up' = [up EXCEPT ![c].pc = "uploadToR2",
                            ![c].guideId = GuideIdOf(file.name),
                            \* metadata.title || file.name
                            ![c].title = IF fm.title # "" THEN fm.title
                                         ELSE Concat(file.name),
                            ![c].markdown = fm.markdown]
                /\ UNCHANGED anyFailed
    /\ UNCHANGED <<stores, active, submitted, prevDone, svars, fvars, rvars>>

\* const markdownUrl = await uploadToR2(r2, guideId, file.content);
UploadToR2(c) ==
    /\ c \in active
    /\ up[c].pc = "uploadToR2"
    /\ \E fault \in BOOLEAN :
        IF fault
        THEN /\ Throw(c, "body-write", "fault", "parseMarkdown")
             /\ UNCHANGED r2
        ELSE /\ r2' = (R2Key(up[c].guideId) :> CurrentFile(c).content) @@ r2
             /\ up' = [up EXCEPT ![c].pc = "parseMarkdown",
                                 ![c].writes = Append(@, "body-write")]
             /\ UNCHANGED anyFailed
    /\ UNCHANGED <<guides, sections, guides_fts, active, submitted, prevDone, svars, fvars, rvars>>

\* const sections = await parseMarkdown(markdown);
ParseStep(c) ==
    /\ c \in active
    /\ up[c].pc = "parseMarkdown"
    /\ up' = [up EXCEPT ![c].pc = "insertGuide",
                        ![c].secs = ParseMarkdown(up[c].markdown),
                        ![c].sidx = 1]
    /\ UNCHANGED <<stores, active, submitted, prevDone, anyFailed, svars, fvars, rvars>>

\* storeInD1: the INSERT INTO guides
InsertGuide(c) ==
    /\ c \in active
    /\ up[c].pc = "insertGuide"
    /\ LET next == IF up[c].secs = <<>> THEN "ftsDelete" ELSE "insertSection"
           res == InsertGuideStmt(guides, up[c].guideId,
                    [title |-> up[c].title, markdown_url |-> R2Key(up[c].guideId)])
       IN  \E fault \in BOOLEAN :
            IF fault \/ ~res.ok
            THEN /\ Throw(c, "metadata-write",
                          IF fault THEN "fault" ELSE "constraint", next)
                 /\ UNCHANGED guides
            ELSE /\ guides' = res.tbl
                 /\ up' = [up EXCEPT ![c].pc = next,
                                     ![c].writes = Append(@, "metadata-write")]
                 /\ UNCHANGED anyFailed
    /\ UNCHANGED <<r2, sections, guides_fts, active, submitted, prevDone, svars, fvars, rvars>>

\* storeInD1: one turn of for (const section of sections) { INSERT INTO sections }
InsertSection(c) ==
    /\ c \in active
    /\ up[c].pc = "insertSection"
    /\ LET sec == up[c].secs[up[c].sidx]
           last == up[c].sidx = Len(up[c].secs)
           next == IF last THEN "ftsDelete" ELSE "insertSection"
           res == InsertSectionStmt(sections, sec.id,
                    [guide_id |-> up[c].guideId, level |-> sec.level,
                     title |-> sec.title, content |-> sec.content,
                     start_line |-> sec.start_line, end_line |-> sec.end_line])
       IN  \E fault \in BOOLEAN :
            IF fault \/ ~res.ok
            THEN /\ Throw(c, "metadata-write",
                          IF fault THEN "fault" ELSE "constraint", "ftsDelete")
                 /\ UNCHANGED sections
            ELSE /\ sections' = res.tbl
                 /\ up' = [up EXCEPT ![c].pc = next,
                                     ![c].sidx = IF last THEN @ ELSE @ + 1,
                                     ![c].writes = Append(@, "metadata-write")]
                 /\ UNCHANGED anyFailed
    /\ UNCHANGED <<r2, guides, guides_fts, active, submitted, prevDone, svars, fvars, rvars>>

\* storeInD1: DELETE FROM guides_fts WHERE guide_id = ?
FtsDelete(c) ==
    /\ c \in active
    /\ up[c].pc = "ftsDelete"
    /\ \E fault \in BOOLEAN :
        IF fault
        THEN /\ Throw(c, "index-write", "fault", "ftsInsert")
             /\ UNCHANGED guides_fts
        ELSE /\ guides_fts' = FtsDeleteStmt(guides_fts, up[c].guideId)
             /\ up' = [up EXCEPT ![c].pc = "ftsInsert",
                                 ![c].writes = Append(@, "index-write")]
             /\ UNCHANGED anyFailed
    /\ UNCHANGED <<r2, guides, sections, active, submitted, prevDone, svars, fvars, rvars>>

\* storeInD1: INSERT INTO guides_fts
FtsInsert(c) ==
    /\ c \in active
    /\ up[c].pc = "ftsInsert"
    /\ \E fault \in BOOLEAN :
        IF fault
        THEN /\ Throw(c, "index-write", "fault", "vectorize")
             /\ UNCHANGED guides_fts
        ELSE /\ guides_fts' = FtsInsertStmt(guides_fts,
                    [guide_id |-> up[c].guideId, title |-> up[c].title,
                     content |-> FtsContent(up[c].secs)])
             /\ up' = [up EXCEPT ![c].pc = "vectorize",
                                 ![c].writes = Append(@, "index-write")]
             /\ UNCHANGED anyFailed
    /\ UNCHANGED <<r2, guides, sections, active, submitted, prevDone, svars, fvars, rvars>>

\* if (vectorize) { await createVectorEmbeddings(...) }: logs, writes nothing
CreateVectorEmbeddings(c) ==
    /\ c \in active
    /\ up[c].pc = "vectorize"
    /\ up' = [up EXCEPT ![c].pc = "next"]
    /\ UNCHANGED <<stores, active, submitted, prevDone, anyFailed, svars, fvars, rvars>>

\* console.log(`Successfully processed: ...`); the for loop moves on
NextFile(c) ==
    /\ c \in active
    /\ up[c].pc = "next"
    /\ prevDone' = [prevDone EXCEPT ![c] =
            [valid |-> TRUE, file |-> CurrentFile(c),
             data |-> GuideData(up[c].guideId)]]
    /\ IF up[c].idx < Len(up[c].batch)
       THEN up' = [up EXCEPT ![c] = [IdleCaller EXCEPT !.pc = "extract",
                        !.batch = up[c].batch, !.idx = up[c].idx + 1]]
       ELSE up' = [up EXCEPT ![c].pc = "done"]
    /\ UNCHANGED <<stores, active, submitted, anyFailed, svars, fvars, rvars>>

\* The query engine over indexes that hold anything; nothing is uploaded.
InitSearch ==
    /\ InitRegistryIdle
    /\ ftsIndex \in SeqsUpTo(KeywordRows, MaxCandidates)
    /\ vecIndex \in SeqsUpTo(SemanticRows, MaxCandidates - Len(ftsIndex))
    /\ InitSearchIdle
    /\ InitIngestIdle
    /\ InitCallIdle
    /\ active = {}

\* GuideSearchService.search, one call
Search(q) ==
    /\ \E fault \in LookupFaults :
        /\ scalls' = IssuedLookups(q, fault)
        /\ spc' = SearchStatus(fault)
        /\ sresult' = IF fault = "none" THEN SearchResults(q) ELSE <<>>
    /\ squery' = q
    /\ UNCHANGED <<ftsIndex, vecIndex, ivars, fvars, rvars>>

NextSearch == \E q \in Queries : Search(q)

SpecSearch == InitSearch /\ [][NextSearch]_vars

\* The query engine called with filters, over rows of varied metadata.
InitFilter ==
    /\ InitRegistryIdle
    /\ ftsIndex \in SeqsUpTo(FilterKeywordRows, MaxFilterRows)
    /\ vecIndex \in SeqsUpTo(FilterSemanticRows, MaxFilterRows)
    /\ InitSearchIdle
    /\ InitIngestIdle
    /\ InitCallIdle
    /\ active = {}

NextFilter == \E q \in FilterQueries : Search(q)

SpecFilter == InitFilter /\ [][NextFilter]_vars

Init ==
    /\ InitRegistryIdle
    /\ InitIngestIdle
    /\ active = {1}
    /\ InitSearchIdle
    /\ InitCallIdle
    /\ ftsIndex = <<>>
    /\ vecIndex = <<>>

Next ==
    \E c \in Callers :
        \/ \E files \in SeqsUpTo(Files, MaxFiles) : Upload(c, files)
        \/ ExtractStep(c)
        \/ UploadToR2(c)
        \/ ParseStep(c)
        \/ InsertGuide(c)
        \/ InsertSection(c)
        \/ FtsDelete(c)
        \/ FtsInsert(c)
        \/ CreateVectorEmbeddings(c)
        \/ NextFile(c)

\* One caller of /upload, one batch after another.
Spec == Init /\ [][Next]_vars

----------------------------------------------------------------------------
(* Claims about the hybrid query engine (checked under SpecSearch)         *)

PairOf(r) == <<r.guideId, r.sectionId>>

\* The tagged candidates the two lookups of the last call returned.
Candidates ==
    LET limit == EffectiveLimit(squery)
    IN  Tag(KeywordSearch(squery, limit), "keyword")
            \o Tag(SemanticSearch(squery, limit), "semantic")

\* The combined score as the specification words it: native score times 1.1
\* for a keyword-sourced result, the native score for a semantic-sourced one
\* (both times ten).
SpecCombined(r) ==
    IF r.source = "keyword" THEN 11 * r.relevanceScore ELSE 10 * r.relevanceScore

\* C1 (dedup law): the list a search call returns holds no two results with
\* the same (guideId, sectionId) pair.
C1_DedupLaw ==
    spc = "done" =>
        \A i, j \in 1..Len(sresult) :
            i # j => PairOf(sresult[i]) # PairOf(sresult[j])

\* A call whose lookups returned the same pair twice, and returned that pair.
C1_Witness ==
    /\ spc = "done"
    /\ \E i, j \in 1..Len(Candidates) :
            /\ i # j
            /\ PairOf(Candidates[i]) = PairOf(Candidates[j])
            /\ \E k \in 1..Len(sresult) : PairOf(sresult[k]) = PairOf(Candidates[i])

\* C7 as claimed: a call that passes a limit gets at most that many results.
C7_AtMostLimit ==
    (spc = "done" /\ squery.hasLimit) => Len(sresult) <= squery.limit

\* C8 (ranking): the returned list is in descending order of combined score.
C8_SortedByCombinedScore ==
    spc = "done" =>
        \A i, j \in 1..Len(sresult) :
            i < j => SpecCombined(sresult[i]) >= SpecCombined(sresult[j])

\* A keyword result is ranked above a semantic result of higher native score.
C8_Witness ==
    /\ spc = "done"
    /\ \E i, j \in 1..Len(sresult) :
            /\ i < j
            /\ sresult[i].source = "keyword"
            /\ sresult[j].source = "semantic"
            /\ sresult[i].relevanceScore < sresult[j].relevanceScore

\* C9 (which duplicate survives): a returned result has the highest combined
\* score among the candidates of its pair, and is the keyword occurrence when
\* a keyword occurrence ties with it.
C9_BestOccurrenceKept ==
    spc = "done" =>
        \A k \in 1..Len(sresult) : \A i \in 1..Len(Candidates) :
            PairOf(Candidates[i]) = PairOf(sresult[k]) =>
                /\ SpecCombined(sresult[k]) >= SpecCombined(Candidates[i])
                /\ (SpecCombined(sresult[k]) = SpecCombined(Candidates[i])
                        /\ Candidates[i].source = "keyword")
                    => sresult[k].source = "keyword"

\* A pair found by both lookups with equal combined scores was returned.
C9_Witness ==
    /\ spc = "done"
    /\ \E k \in 1..Len(sresult) : \E i, j \in 1..Len(Candidates) :
            /\ PairOf(Candidates[i]) = PairOf(sresult[k])
            /\ PairOf(Candidates[j]) = PairOf(sresult[k])
            /\ Candidates[i].source = "keyword"
            /\ Candidates[j].source = "semantic"
            /\ SpecCombined(Candidates[i]) = SpecCombined(Candidates[j])

----------------------------------------------------------------------------
(* Claims about the indexing coordinator (checked under Spec)              *)

\* The rows the sections table holds for guide g.
StoredSections(g) ==
    { <<id, sections[id]>> : id \in
        { x \in DOMAIN sections : sections[x].guide_id = g } }

\* The rows a full replacement by the parsed sections secs would leave.
ParsedSections(g, secs) ==
    { <<secs[i].id,
        [guide_id |-> g, level |-> secs[i].level, title |-> secs[i].title,
         content |-> secs[i].content, start_line |-> secs[i].start_line,
         end_line |-> secs[i].end_line]>> : i \in 1..Len(secs) }

HasFrontmatter(content) == FrontmatterMatch(content).matched

\* Caller c is processing, or has just processed, the file it processed to
\* the end immediately before.
Reprocessing(c) ==
    /\ prevDone[c].valid
    /\ up[c].pc \notin {"idle", "done"}
    /\ CurrentFile(c) = prevDone[c].file

C3_FullReplacement ==
    \A c \in active :
        (up[c].pc = "next" /\ ~anyFailed) =>
            StoredSections(up[c].guideId) = ParsedSections(up[c].guideId, up[c].secs)

\* C4 as claimed: a file without frontmatter is never processed to the end and
\* nothing is written for it.
C4_NoFrontmatterNoWrites ==
    \A c \in active :
        (up[c].pc \notin {"idle", "extract"} /\ ~HasFrontmatter(CurrentFile(c).content))
            => (up[c].writes = <<>> /\ up[c].pc \notin {"next", "done"})

\* C5 as claimed: a batch ends only after its last file has been taken up.
C5_BatchContinues ==
    \A c \in active :
        up[c].pc \in {"done", "aborted"} => up[c].idx = Len(up[c].batch)

\* C6 (stage failure): once a stage has failed for a file, the stores of the
\* later stages have not been written for it.
C6_NoLaterStageAfterFailure ==
    \A c \in active :
        up[c].failed.stage # "none" =>
            \A i \in 1..Len(up[c].writes) :
                StageRank(up[c].writes[i]) <= StageRank(up[c].failed.stage)

\* The metadata write failed after the body was written.
C6_Witness ==
    \E c \in active :
        /\ up[c].pc = "aborted"
        /\ up[c].failed = [stage |-> "metadata-write", cause |-> "fault"]
        /\ up[c].writes = <<"body-write">>

----------------------------------------------------------------------------
(* Claims about failures and filters of the query engine                   *)

SomeLookupThrew == \E i \in 1..Len(scalls) : scalls[i].throws

\* C11 (lookup failure): when the keyword lookup or the semantic lookup of a
\* search call throws, the call ends in an error and hands no result list to
\* its caller.
C11_LookupFailureIsError ==
    SomeLookupThrew => (spc = "error" /\ sresult = <<>>)

\* The semantic lookup threw after the keyword lookup had returned rows.
C11_Witness ==
    /\ spc = "error"
    /\ Len(scalls) = 2
    /\ ~scalls[1].throws
    /\ scalls[2].throws
    /\ KeywordSearch(squery, EffectiveLimit(squery)) # <<>>

\* C12 as claimed: both lookups of a search call are issued with every filter
\* the caller supplied (category, framework, language, tags).
C12_SameFilters ==
    spc = "done" =>
        \A i \in 1..Len(scalls) :
            scalls[i].filters = { <<f, squery[f]>> : f \in Supplied(squery) }

----------------------------------------------------------------------------
(* The section splitter applied to any body                                *)

\* Everything but the single call is at rest.
InitOthersIdle ==
    /\ InitSearchIdle
    /\ InitIngestIdle
    /\ active = {}
    /\ ftsIndex = <<>>
    /\ vecIndex = <<>>

BodyLines == {LHeadA, LHeadB, LText, LBlank}

InitParse ==
    /\ InitRegistryIdle
    /\ fpc = "idle"
    /\ fin \in SeqsUpTo(BodyLines, MaxBodyLines)
    /\ fout = <<>>
    /\ InitOthersIdle

\* parseMarkdown(markdown), one call
ParseBody ==
    /\ fpc = "idle"
    /\ fpc' = "parseMarkdown"
    /\ fout' = ParseMarkdown(fin)
    /\ UNCHANGED <<fin, svars, ivars, rvars>>

NextParse == ParseBody

SpecParse == InitParse /\ [][NextParse]_vars

\* The text of lines, each followed by a line break.
RECURSIVE Terminated(_)
Terminated(lines) ==
    IF lines = <<>> THEN ""
    ELSE lines[1].raw \o "\n" \o Terminated(Tail(lines))

\* The heading line of each section (the body line at its start_line)
\* followed by the section's content, in order.
RECURSIVE Reassembled(_, _)
Reassembled(secs, lines) ==
    IF secs = <<>> THEN ""
    ELSE lines[secs[1].start_line].raw \o "\n" \o secs[1].content
            \o Reassembled(Tail(secs), lines)

HeadingLines(lines) == { i \in 1..Len(lines) : HeaderMatch(lines[i]) }

\* The body from its first heading line on; nothing when it has no heading.
FromFirstHeading(lines) ==
    IF HeadingLines(lines) = {} THEN <<>>
    ELSE SubSeq(lines, CHOOSE i \in HeadingLines(lines) :
                            \A k \in HeadingLines(lines) : i <= k, Len(lines))

\* C13 as claimed: the heading lines and contents of the sections, in order,
\* reproduce the whole body.
C13_SectionCoverage ==
    fpc = "parseMarkdown" => Reassembled(fout, fin) = Terminated(fin)

\* C13 as amended: the heading lines and contents of the sections, in order,
\* reproduce the body from its first heading line on, line for line; the
\* lines before the first heading are in no section.
C13_CoverageFromFirstHeading ==
    fpc = "parseMarkdown" =>
        Reassembled(fout, fin) = Terminated(FromFirstHeading(fin))

\* A body with text before its first heading and two sections, the first
\* with content.
C13_Witness ==
    /\ fpc = "parseMarkdown"
    /\ fin # <<>>
    /\ ~HeaderMatch(fin[1])
    /\ Len(fout) = 2
    /\ fout[1].content # ""

----------------------------------------------------------------------------
(* The chunker: GuideParser.createChunks / splitLargeSection               *)
(* (src/docs/guide-processor.ts)                                           *)
(*                                                                         *)
(* A text is kept as its length in characters, the only thing the chunker  *)
(* reads off it besides the paragraph boundaries. The content of a section *)
(* is the sequence of the lengths of its paragraphs, content.split of      *)
(* "\n\n"; a chunk names the paragraphs it holds by their positions.       *)

MaxChunkTokens == 1000
CharsPerToken == 4
MinSectionChars == 100

\* Math.ceil(text.length / 4)
EstimateTokens(len) == (len + CharsPerToken - 1) \div CharsPerToken

\* Mutant of TooLarge: the estimate is compared with the ceiling in characters.
TooLargeInChars(tokens) == tokens > MaxChunkTokens * CharsPerToken

\* if (tokens > 1000)
TooLarge(tokens) == tokens > MaxChunkTokens

RECURSIVE SumLens(_)
SumLens(lens) == IF lens = <<>> THEN 0 ELSE lens[1] + SumLens(Tail(lens))

\* parts.join(sep).length
JoinedLength(parts, sepLen) ==
    IF parts = <<>> THEN 0 ELSE SumLens(parts) + sepLen * (Len(parts) - 1)

\* section.content.length: the paragraphs joined by "\n\n"
ContentLength(in) == JoinedLength(in.paragraphs, 2)

\* chunkText of createChunks: "# title", "Category: c", "Section: s", "",
\* content, joined by "\n"
WholeChunkLength(in) ==
    JoinedLength(<<2 + in.title, 10 + in.category, 9 + in.sectionTitle, 0,
                   ContentLength(in)>>, 1)

\* The header of currentChunk in splitLargeSection: "# title", "Section: s"
\* or "Section: s (continued)", "".
HeaderParts(in, continued) ==
    <<2 + in.title, 9 + in.sectionTitle + (IF continued THEN 12 ELSE 0), 0>>

\* currentChunk.join("\n\n").length, for the paragraphs ps (positions)
SplitChunkLength(in, continued, ps) ==
    JoinedLength(HeaderParts(in, continued)
                    \o [k \in 1..Len(ps) |-> in.paragraphs[ps[k]]], 2)

Chunk(split, continued, ps, tokens) ==
    [split |-> split, continued |-> continued, paragraphs |-> ps, tokens |-> tokens]

SplitChunk(in, continued, ps) ==
    Chunk(TRUE, continued, ps, EstimateTokens(SplitChunkLength(in, continued, ps)))

\* Mutant of StartChunk: the paragraph that did not fit is left out.
StartChunkEmpty(i) == <<>>

\* currentChunk = [header..., paragraph]: the paragraphs of the new chunk
StartChunk(i) == <<i>>

\* splitLargeSection: the loop over paragraphs from position i on, and the
\* "Save last chunk" that follows it. cur is currentChunk without its header.
RECURSIVE SplitLoop(_, _, _, _, _)
SplitLoop(in, i, cur, continued, chunks) ==
    IF i > Len(in.paragraphs)
    THEN IF Len(cur) > 0 THEN Append(chunks, SplitChunk(in, continued, cur))
         ELSE chunks
    ELSE IF TooLarge(EstimateTokens(SplitChunkLength(in, continued, Append(cur, i))))
         THEN SplitLoop(in, i + 1, StartChunk(i), TRUE,
                        Append(chunks, SplitChunk(in, continued, cur)))
         ELSE SplitLoop(in, i + 1, Append(cur, i), continued, chunks)

SplitLargeSection(in) == SplitLoop(in, 1, <<>>, FALSE, <<>>)

\* createChunks, for one section
CreateChunks(in) ==
    IF ContentLength(in) < MinSectionChars THEN <<>>
    ELSE IF TooLarge(EstimateTokens(WholeChunkLength(in)))
         THEN SplitLargeSection(in)
         ELSE << Chunk(FALSE, FALSE, [k \in 1..Len(in.paragraphs) |-> k],
                       EstimateTokens(WholeChunkLength(in))) >>

ParagraphLens == {40, 1900, 3990, 4100}
TitleLens == {1, 4000}

ChunkInputs ==
    { [title |-> t, category |-> 1, sectionTitle |-> 1, paragraphs |-> ps] :
        t \in TitleLens,
        ps \in (SeqsUpTo(ParagraphLens, MaxParagraphs) \ {<<>>}) }

InitChunk ==
    /\ InitRegistryIdle
    /\ fpc = "idle"
    /\ fin \in ChunkInputs
    /\ fout = <<>>
    /\ InitOthersIdle

ChunkSection ==
    /\ fpc = "idle"
    /\ fpc' = "createChunks"
    /\ fout' = CreateChunks(fin)
    /\ UNCHANGED <<fin, svars, ivars, rvars>>

NextChunk == ChunkSection

SpecChunk == InitChunk /\ [][NextChunk]_vars

\* The paragraphs the chunks hold, in the order of the chunks.
RECURSIVE ChunkedParagraphs(_)
ChunkedParagraphs(chunks) ==
    IF chunks = <<>> THEN <<>>
    ELSE chunks[1].paragraphs \o ChunkedParagraphs(Tail(chunks))

AllParagraphs(in) == [k \in 1..Len(in.paragraphs) |-> k]

\* The chunk holds one paragraph, and that paragraph by itself is estimated
\* above the ceiling.
OversizedParagraphAlone(in, chunk) ==
    /\ Len(chunk.paragraphs) = 1
    /\ EstimateTokens(in.paragraphs[chunk.paragraphs[1]]) > MaxChunkTokens

\* C14 as claimed: every chunk is estimated at 1000 tokens at most, header
\* included, unless its content is one paragraph that alone exceeds 1000.
C14_ChunkTokenBound ==
    fpc = "createChunks" =>
        \A i \in 1..Len(fout) :
            fout[i].tokens <= MaxChunkTokens \/ OversizedParagraphAlone(fin, fout[i])

\* C14 as amended: every chunk is estimated at 1000 tokens at most, header
\* included, unless it holds at most one paragraph (the header and that
\* paragraph together then exceed 1000).
C14_BoundUnlessOneParagraph ==
    fpc = "createChunks" =>
        \A i \in 1..Len(fout) :
            fout[i].tokens <= MaxChunkTokens \/ Len(fout[i].paragraphs) <= 1

\* A section split into a chunk of several paragraphs and an oversized chunk.
C14_Witness ==
    /\ fpc = "createChunks"
    /\ \E i \in 1..Len(fout) : Len(fout[i].paragraphs) >= 2
    /\ \E i \in 1..Len(fout) : fout[i].tokens > MaxChunkTokens

C16_OneOversizedChunk ==
    (/\ fpc = "createChunks"
     /\ Len(fin.paragraphs) = 1
     /\ EstimateTokens(fin.paragraphs[1]) > MaxChunkTokens)
        => (Len(fout) = 1 /\ fout[1].paragraphs = <<1>>)

----------------------------------------------------------------------------
(* get_guide: the route and the MCP tool of src/unnamed/part_000, and      *)
(* GuideSearchService.getGuide behind the route of src/unnamed/part_006    *)

GetGuideImpls == {"route", "tool", "service"}

\* db.prepare('SELECT * FROM guides WHERE id = ?').bind(guideId).first():
\* the row, or null (<<>>)
FirstGuide(guideId) ==
    IF guideId \in DOMAIN guides THEN <<guides[guideId]>> ELSE <<>>

\* Mutant of GuideMissing: the test for a missing guide is left out.
GuideMissingNever(guide) == FALSE

\* if (!guide) / if (!metadata)
GuideMissing(guide) == guide = <<>>

\* SELECT * FROM sections WHERE guide_id = ? [AND id = ?]: the ids
SectionIdsOf(guideId, sectionId) ==
    { id \in DOMAIN sections :
        /\ sections[id].guide_id = guideId
        /\ sectionId # "" => id = sectionId }

\* ... ORDER BY start_line ASC
RECURSIVE ByStartLine(_)
ByStartLine(ids) ==
    IF ids = {} THEN <<>>
    ELSE LET first == CHOOSE id \in ids :
                        \A o \in ids : sections[id].start_line <= sections[o].start_line
         IN  <<[id |-> first, row |-> sections[first]]>> \o ByStartLine(ids \ {first})

NullBody == [null |-> TRUE, text |-> <<>>]

Body(text) == [null |-> FALSE, text |-> text]

\* The markdown field of the response. The route and the tool answer
\* sectionId ? null : markdown, with markdown null when R2 has no object;
\* getGuide answers the text of the object, '' when R2 has none.
MarkdownField(impl, key, sectionId) ==
    IF impl = "service"
    THEN IF key \in DOMAIN r2 THEN Body(r2[key]) ELSE Body(<<>>)
    ELSE IF sectionId # "" \/ key \notin DOMAIN r2 THEN NullBody ELSE Body(r2[key])

Response(status, secs, markdown) ==
    [status |-> status, sections |-> secs, markdown |-> markdown]

Failure(status) == Response(status, <<>>, NullBody)

\* One get_guide call, to its response.
GetGuide(impl, guideId, sectionId) ==
    IF impl = "route" /\ guideId = ""
    THEN Failure("bad-request")         \* 400, 'guideId parameter is required'
    ELSE LET guide == FirstGuide(guideId)
         IN  IF GuideMissing(guide)
             THEN Failure("not-found")  \* 404 / isError, 'Guide not found'
             ELSE IF guide = <<>>
                  THEN Failure("error") \* reading markdown_url of null throws
                  ELSE Response("ok",
                                ByStartLine(SectionIdsOf(guideId, sectionId)),
                                MarkdownField(impl, guide[1].markdown_url, sectionId))

GuideRowA == [title |-> "T", markdown_url |-> R2Key("a")]

\* The sections table after a body of n headings was stored for guide "a".
SectionsOfA(n) ==
    LET secs == ParseMarkdown([k \in 1..n |-> LHeadA])
    IN  [id \in { secs[k].id : k \in 1..n } |->
            LET sec == secs[CHOOSE k \in 1..n : secs[k].id = id]
            IN  [guide_id |-> "a", level |-> sec.level, title |-> sec.title,
                 content |-> sec.content, start_line |-> sec.start_line,
                 end_line |-> sec.end_line]]

GetGuideInputs ==
    [impl : GetGuideImpls, guideId : {"", "a", "b"},
     sectionId : {"", "section-1", "section-9"}]

InitGet ==
    /\ InitRegistryIdle
    /\ fpc = "idle"
    /\ fin = <<>>
    /\ fout = <<>>
    /\ guides \in {EmptyMap, "a" :> GuideRowA}
    /\ r2 \in {EmptyMap, R2Key("a") :> DocNoFrontmatter}
    /\ \E n \in 0..MaxStoredSections : sections = SectionsOfA(n)
    /\ guides_fts = <<>>
    /\ up = [c \in Callers |-> IdleCaller]
    /\ submitted = 0
    /\ prevDone = [c \in Callers |-> NoneDone]
    /\ anyFailed = FALSE
    /\ active = {}
    /\ InitSearchIdle
    /\ ftsIndex = <<>>
    /\ vecIndex = <<>>

\* The call gets as far as the r2.get(...) of the body: the guide row was
\* found, and the route and the tool skip the read when a section is asked for.
ReadsBody(in) ==
    /\ in.guideId \in DOMAIN guides
    /\ ~(in.impl = "route" /\ in.guideId = "")
    /\ in.impl = "service" \/ in.sectionId = ""

\* Mutant of R2AfterGet: the read takes the object out of the bucket.
R2AfterGetTaken(bucket, key) ==
    [k \in DOMAIN bucket \ {key} |-> bucket[k]]

\* The bucket after r2.get(key): a read, every object stays.
R2AfterGet(bucket, key) == bucket

GetGuideCall(in) ==
    /\ fpc = "idle"
    /\ fpc' = "getGuide"
    /\ fin' = in
    /\ fout' = GetGuide(in.impl, in.guideId, in.sectionId)
    /\ r2' = IF ReadsBody(in)
             THEN R2AfterGet(r2, guides[in.guideId].markdown_url)
             ELSE r2
    /\ UNCHANGED <<guides, sections, guides_fts, active, up, submitted,
                   prevDone, anyFailed, svars, rvars>>

\* ---- initialize_claude_md, MCP tool of src/unnamed/part_000

LATEST_VERSION == "1.1.0"

\* currentVersion is optional: given = FALSE is the absent argument.
Version(given, value) == [given |-> given, value |-> value]

VersionInputs ==
    {Version(FALSE, "")} \cup
        { Version(TRUE, v) : v \in {"", "1.0.0", LATEST_VERSION, "1.1.0 ", "2.0.0"} }

\* The truthiness of currentVersion: undefined and '' are falsy.
Truthy(v) == v.given /\ v.value # ""

\* currentVersion === LATEST_VERSION
IsUpToDate(v) == v.given /\ v.value = LATEST_VERSION

\* Mutant of NeedsUpdate: the test that a version was passed is left out.
NeedsUpdateIfDifferent(v) == ~(v.given /\ v.value = LATEST_VERSION)

\* currentVersion && currentVersion !== LATEST_VERSION
NeedsUpdate(v) == Truthy(v) /\ ~(v.given /\ v.value = LATEST_VERSION)

\* if (isUpToDate) ... else if (needsUpdate) ... else ...
ActionFor(v) ==
    IF IsUpToDate(v) THEN "none"
    ELSE IF NeedsUpdate(v) THEN "update"
    ELSE "create"

\* The JSON the tool answers; template: action === 'none' ? null : template
InitializeClaudeMd(v) ==
    [action |-> ActionFor(v),
     latestVersion |-> LATEST_VERSION,
     hasTemplate |-> ActionFor(v) # "none"]

InitializeCall(v) ==
    /\ fpc = "idle"
    /\ fpc' = "initialize_claude_md"
    /\ fin' = v
    /\ fout' = InitializeClaudeMd(v)
    /\ UNCHANGED <<svars, ivars, rvars>>

\* One call of an MCP tool over any stored guide.
NextGet ==
    \/ \E in \in GetGuideInputs : GetGuideCall(in)
    \/ \E v \in VersionInputs : InitializeCall(v)

SpecGet == InitGet /\ [][NextGet]_vars

\* C17 (unknown guide): a get_guide call for a guide id that is not stored
\* ends in an error, the not-found error when an id was passed, and never in
\* a successful guide view.
C17_UnknownGuideNotFound ==
    (fpc = "getGuide" /\ fin.guideId \notin DOMAIN guides) =>
        /\ fout.status # "ok"
        /\ fin.guideId # "" => fout.status = "not-found"

\* An id that is not stored was asked for while another guide is stored.
C17_Witness ==
    /\ fpc = "getGuide"
    /\ fin.guideId = "b"
    /\ "a" \in DOMAIN guides
    /\ fout.status = "not-found"

\* The response carries a raw body: its markdown is neither null nor ''.
CarriesBody(resp) == ~resp.markdown.null /\ resp.markdown.text # <<>>

\* C18 as claimed: a successful get_guide response carries no raw body when a
\* section id was requested, and the stored body when none was.
C18_BodyIffNoSection ==
    (fpc = "getGuide" /\ fout.status = "ok") =>
        /\ fin.sectionId # "" => ~CarriesBody(fout)
        /\ (fin.sectionId = "" /\ R2Key(fin.guideId) \in DOMAIN r2) =>
                fout.markdown = Body(r2[R2Key(fin.guideId)])

\* No version string was passed: the argument is absent or empty (the tool
\* then echoes currentVersion: null).
NoVersionGiven(v) == ~v.given \/ v.value = ""

\* C19 (initialize_claude_md): the action is "none" exactly when the version
\* passed equals the latest one, "update" exactly when a version was passed
\* and differs from the latest, "create" exactly when none was passed; the
\* template is absent exactly when the action is "none".
C19_ActionByVersion ==
    fpc = "initialize_claude_md" =>
        /\ fout.action = "none" <=> (~NoVersionGiven(fin) /\ fin.value = LATEST_VERSION)
        /\ fout.action = "update" <=> (~NoVersionGiven(fin) /\ fin.value # LATEST_VERSION)
        /\ fout.action = "create" <=> NoVersionGiven(fin)
        /\ ~fout.hasTemplate <=> fout.action = "none"

\* The tool was called with an outdated version and answered "update".
C19_Witness ==
    /\ fpc = "initialize_claude_md"
    /\ fin = Version(TRUE, "1.0.0")
    /\ fout.action = "update"
    /\ fout.hasTemplate

----------------------------------------------------------------------------
(* The order of the steps of processAndUploadGuides (checked under Spec)   *)

\* The positions at which the sections of the current file are not yet split.
BeforeSplit == {"extract", "uploadToR2", "parseMarkdown"}

\* C20 as claimed: the sections of a file are split before the first store
\* write for it, and the writes for it come in the order object store,
\* relational store, full-text index, vector index.
C20_StepOrder ==
    \A c \in active :
        /\ up[c].writes # <<>> => up[c].pc \notin BeforeSplit
        /\ \A i, j \in 1..Len(up[c].writes) :
                i < j => StageRank(up[c].writes[i]) <= StageRank(up[c].writes[j])

----------------------------------------------------------------------------
(* Claims about guides that share the stores (checked under Spec)          *)

\* Caller c is processing a file of another guide than the one it processed
\* to the end immediately before.
ProcessingOtherGuide(c) ==
    /\ prevDone[c].valid
    /\ up[c].pc \notin {"idle", "done"}
    /\ GuideIdOf(CurrentFile(c).name) # GuideIdOf(prevDone[c].file.name)

\* C21 as claimed: while and after a file of guide B is processed, the
\* sections of the guide A processed before it are the ones its own pass left.
C21_OtherGuidesUntouched ==
    \A c \in active :
        ProcessingOtherGuide(c) =>
            StoredSections(GuideIdOf(prevDone[c].file.name)) = prevDone[c].data.sections

----------------------------------------------------------------------------
(* Claims about the sections of one body (checked under SpecParse)         *)

C23_LineRanges ==
    fpc = "parseMarkdown" =>
        /\ \A i \in 1..Len(fout) :
                /\ fout[i].start_line <= fout[i].end_line
                /\ fout[i].start_line \in 1..Len(fin)
                /\ HeaderMatch(fin[fout[i].start_line])
                /\ fin[fout[i].start_line].title = fout[i].title
        /\ \A i \in 1..(Len(fout) - 1) :
                /\ fout[i].start_line < fout[i + 1].start_line
                /\ fout[i].end_line = fout[i + 1].start_line - 1
        /\ fout # <<>> => fout[Len(fout)].end_line = Len(fin)

\* Two sections, the first with content, and text after the last heading.
C23_Witness ==
    /\ fpc = "parseMarkdown"
    /\ Len(fout) = 2
    /\ fout[1].end_line > fout[1].start_line
    /\ fout[2].end_line > fout[2].start_line

----------------------------------------------------------------------------
(* Two callers of /upload at once, on one guide                            *)

\* Two versions of the file a.md.
SharedFiles ==
    { [name |-> <<"a", ".md">>, content |-> c] :
        c \in {DocTwoSections, DocNoFrontmatter} }

InitShared ==
    /\ InitRegistryIdle
    /\ InitIngestIdle
    /\ active = Callers
    /\ InitSearchIdle
    /\ InitCallIdle
    /\ ftsIndex = <<>>
    /\ vecIndex = <<>>

\* The Workers runtime runs the two requests interleaved at their awaits.
NextShared ==
    \E c \in Callers :
        \/ \E f \in SharedFiles : Upload(c, <<f>>)
        \/ ExtractStep(c)
        \/ UploadToR2(c)
        \/ ParseStep(c)
        \/ InsertGuide(c)
        \/ InsertSection(c)
        \/ FtsDelete(c)
        \/ FtsInsert(c)
        \/ CreateVectorEmbeddings(c)
        \/ NextFile(c)

SpecShared == InitShared /\ [][NextShared]_vars

\* Both callers have processed a file of the guide g to the end.
BothCompleted(g) ==
    /\ ~anyFailed
    /\ \A c \in Callers :
        /\ up[c].pc = "done"
        /\ up[c].guideId = g

\* The full-text row a caller writes for its file.
FtsRowOf(c) ==
    [guide_id |-> up[c].guideId, title |-> up[c].title,
     content |-> FtsContent(up[c].secs)]

\* C24 (concurrent writers of one guide): when two callers have processed
\* the same guide id at once and both completed, the full-text index holds
\* exactly one row for the guide, the row of one of the two writers.
C24_OneFtsRowAfterRace ==
    \A g \in {GuideIdOf(f.name) : f \in SharedFiles} :
        BothCompleted(g) =>
            /\ Len(GuideData(g).fts) = 1
            /\ \E c \in Callers : GuideData(g).fts[1] = FtsRowOf(c)

\* The guide of the file caller c is processing was indexed by the pass
\* before, and no call of this pass has failed.
ReindexingIndexedGuide(c) ==
    /\ Reprocessing(c)
    /\ prevDone[c].data.fts # <<>>
    /\ up[c].failed = NoFailure

\* C25 (no unsearchable window): while an already indexed guide is processed
\* again, every state a concurrent Search can read has a full-text row for
\* the guide.
C25_AlwaysSearchable ==
    \A c \in active :
        ReindexingIndexedGuide(c) =>
            GuideData(GuideIdOf(CurrentFile(c).name)).fts # <<>>

----------------------------------------------------------------------------
(* get_guide: a section id the guide does not have                         *)

\* The guide is stored and a section id was passed that none of its
\* sections has.
UnknownSectionOfKnownGuide ==
    /\ fpc = "getGuide"
    /\ fin.guideId \in DOMAIN guides
    /\ fin.sectionId # ""
    /\ ~\E id \in DOMAIN sections :
            id = fin.sectionId /\ sections[id].guide_id = fin.guideId

\* C26 (unknown section): get_guide for a stored guide and a section id the
\* guide does not have answers not-found, not a success with no sections.
C26_UnknownSectionNotFound ==
    UnknownSectionOfKnownGuide => fout.status = "not-found"

----------------------------------------------------------------------------
(* Queries while a guide is being processed                                *)

MixedQueries == { q \in Queries : ~q.hasLimit /\ q.limit = 0 }

MixedGets == { in \in GetGuideInputs : in.guideId = "a" }

InitMixed ==
    /\ InitRegistryIdle
    /\ InitIngestIdle
    /\ active = {1}
    /\ InitSearchIdle
    /\ InitCallIdle
    /\ ftsIndex \in {<<>>, <<Row(<<"a", "c">>, 20)>>}
    /\ vecIndex = <<>>

\* Requests to /upload, to search and to get_guide, interleaved at their awaits.
NextMixed ==
    \/ \E c \in Callers :
        \/ \E f \in SharedFiles : Upload(c, <<f>>)
        \/ ExtractStep(c)
        \/ UploadToR2(c)
        \/ ParseStep(c)
        \/ InsertGuide(c)
        \/ InsertSection(c)
        \/ FtsDelete(c)
        \/ FtsInsert(c)
        \/ CreateVectorEmbeddings(c)
        \/ NextFile(c)
    \/ \E q \in MixedQueries : Search(q)
    \/ \E in \in MixedGets : GetGuideCall(in)

SpecMixed == InitMixed /\ [][NextMixed]_vars

\* The step is the return of a search or of a get_guide call.
QueryStep ==
    \/ fpc' # fpc
    \/ <<spc, squery, sresult, scalls>>' # <<spc, squery, sresult, scalls>>

\* C27 (read-only query path): a step of search or of get_guide, wherever it
\* falls among the steps of an upload, leaves the object store, the tables,
\* the full-text index and the vector index as they were.
C27_QueryPathReadOnly ==
    [][QueryStep => UNCHANGED <<r2, guides, sections, guides_fts,
                                ftsIndex, vecIndex>>]_vars

\* get_guide has returned a stored body, and a search has returned, while an
\* upload is under way; the body is still in the bucket.
C27_Witness ==
    /\ fpc = "getGuide"
    /\ CarriesBody(fout)
    /\ spc # "idle"
    /\ up[1].pc \notin {"idle", "done", "aborted"}
    /\ R2Key(fin.guideId) \in DOMAIN r2

----------------------------------------------------------------------------
(* POST /api/sync-registry, webhook of src/unnamed/part_000                *)

\* Authorization headers of a request: none, the token "t", another token.
SyncAuthHeaders == {Absent, <<"Bearer t">>, <<"Bearer x">>}

\* CHECK(category IN ('llm', 'storage', ...)) of table services
ServiceCategories == {"llm", "storage"}

\* Entries of a services manifest. capabilities and providers are <<>> when
\* the entry has no such field and <<list>> when it has.
SvcFull ==
    [id |-> "s1", name |-> "n", category |-> "llm",
     capabilities |-> << <<"c">> >>, providers |-> << <<"p">> >>]

SvcBare ==
    [id |-> "s1", name |-> "m", category |-> "storage",
     capabilities |-> Absent, providers |-> Absent]

SvcCleared ==
    [id |-> "s2", name |-> "n", category |-> "llm",
     capabilities |-> << <<>> >>, providers |-> Absent]

SvcBadCategory ==
    [id |-> "s2", name |-> "n", category |-> "other",
     capabilities |-> << <<"c">> >>, providers |-> Absent]

\* body.services: <<>> stands for a missing field and for an empty array,
\* which the handler treats alike.
Manifests ==
    {<<>>, <<SvcFull>>, <<SvcBare>>, <<SvcCleared>>, <<SvcBadCategory>>,
     <<SvcFull, SvcBadCategory>>}

\* Requests: json is FALSE when the body does not parse.
SyncRequests ==
    [auth : SyncAuthHeaders, json : {TRUE}, services : Manifests]
        \cup [auth : SyncAuthHeaders, json : {FALSE}, services : {<<>>}]

\* if (expectedToken && authHeader !== `Bearer ${expectedToken}`)
Unauthorized(expectedToken, authHeader) ==
    /\ expectedToken # <<>>
    /\ authHeader # <<"Bearer " \o expectedToken[1]>>

\* bind(service.name, ..., service.category, ...): the columns kept here
ServiceRow(service) == [name |-> service.name, category |-> service.category]

\* DELETE FROM <table> WHERE service_id = ?, then one INSERT per item
\* (item is the column capability or provider_name)
ReplaceRows(table, serviceId, items) ==
    SelectSeq(table, LAMBDA r : r.service_id # serviceId)
        \o [k \in 1..Len(items) |->
                [service_id |-> serviceId, item |-> items[k]]]

\* for (const service of services) { ... }: st holds the three tables, the
\* two counters and whether a statement has thrown.
RECURSIVE SyncServices(_, _, _)
SyncServices(list, i, st) ==
    IF i > Len(list) \/ st.thrown
    THEN st
    ELSE LET service == list[i]
             existing == service.id \in DOMAIN st.services
         IN  IF service.category \notin ServiceCategories
             THEN [st EXCEPT !.thrown = TRUE]
             ELSE SyncServices(list, i + 1,
                    [st EXCEPT
                        !.services = (service.id :> ServiceRow(service)) @@ @,
                        !.added = IF existing THEN @ ELSE @ + 1,
                        !.updated = IF existing THEN @ + 1 ELSE @,
                        !.capabilities =
                            IF service.capabilities = Absent THEN @
                            ELSE ReplaceRows(@, service.id,
                                             service.capabilities[1]),
                        !.providers =
                            IF service.providers = Absent THEN @
                            ELSE ReplaceRows(@, service.id,
                                             service.providers[1])])

\* c.json({...}, status)
SyncResponse(status, added, updated) ==
    [status |-> status, services_added |-> added, services_updated |-> updated]

InitSync ==
    /\ InitIngestIdle
    /\ active = {}
    /\ InitSearchIdle
    /\ InitCallIdle
    /\ ftsIndex = <<>>
    /\ vecIndex = <<>>
    /\ services = EmptyMap
    /\ service_capabilities = <<>>
    /\ service_providers = <<>>
    /\ registry_sync_log = <<>>
    /\ REGISTRY_SYNC_TOKEN \in {<<>>, <<"t">>}

\* app.post('/api/sync-registry', ...)
SyncRegistry(req) ==
    /\ Len(registry_sync_log) < MaxSyncs
    /\ fpc' = "sync-registry"
    /\ fin' = req
    /\ IF Unauthorized(REGISTRY_SYNC_TOKEN, req.auth)
       THEN /\ fout' = SyncResponse(401, 0, 0)
            /\ UNCHANGED <<services, service_capabilities, service_providers,
                           registry_sync_log>>
       ELSE IF ~req.json
       THEN /\ fout' = SyncResponse(500, 0, 0)
            /\ UNCHANGED <<services, service_capabilities, service_providers,
                           registry_sync_log>>
       ELSE LET st == SyncServices(req.services, 1,
                        [services |-> services,
                         capabilities |-> service_capabilities,
                         providers |-> service_providers,
                         added |-> 0, updated |-> 0, thrown |-> FALSE])
            IN  /\ services' = st.services
                /\ service_capabilities' = st.capabilities
                /\ service_providers' = st.providers
                /\ IF st.thrown
                   THEN /\ fout' = SyncResponse(500, 0, 0)
                        /\ UNCHANGED registry_sync_log
                   ELSE /\ registry_sync_log' = Append(registry_sync_log,
                                [services_added |-> st.added,
                                 services_updated |-> st.updated])
                        /\ fout' = SyncResponse(200, st.added, st.updated)
    /\ UNCHANGED <<REGISTRY_SYNC_TOKEN, svars, ivars>>

NextSync == \E req \in SyncRequests : SyncRegistry(req)

SpecSync == InitSync /\ [][NextSync]_vars

\* The Authorization header is not "Bearer " followed by the secret.
NotBearerToken(authHeader) ==
    \/ REGISTRY_SYNC_TOKEN = <<>>
    \/ authHeader # <<"Bearer " \o REGISTRY_SYNC_TOKEN[1]>>

\* C28 (webhook authentication): a request to /api/sync-registry whose
\* Authorization header is not the bearer token of the deployment is
\* answered 401 and changes none of the four registry tables.
C28_BadTokenRejected ==
    [][(fpc' = "sync-registry" /\ NotBearerToken(fin'.auth)) =>
        /\ fout'.status = 401
        /\ UNCHANGED <<services, service_capabilities, service_providers,
                       registry_sync_log>>]_vars

----------------------------------------------------------------------------
(* Chunker: what a chunk of an oversized section holds                     *)

\* C29 (no header-only chunk): every chunk splitLargeSection emits holds at
\* least one paragraph of the section, also when the first paragraph alone
\* is over the ceiling.
C29_NoHeaderOnlyChunk ==
    fpc = "createChunks" =>
        \A i \in 1..Len(fout) : fout[i].split => fout[i].paragraphs # <<>>

----------------------------------------------------------------------------
(* Search: distinct pairs are distinct results                             *)

\* The (guideId, sectionId) pairs among the candidates of the last call.
CandidatePairs == { PairOf(Candidates[i]) : i \in 1..Len(Candidates) }

\* C30 (dedup keeps distinct pairs): no candidate is dropped as a duplicate
\* of a candidate with another (guideId, sectionId) pair, so a search returns
\* as many results as there are distinct pairs among its candidates, up to
\* the limit it applies.
C30_DistinctPairsKept ==
    spc = "done" =>
        Len(sresult) = Min(EffectiveLimit(squery), Cardinality(CandidatePairs))

====
